---- MODULE Spec2Model ----
(***************************************************************************)
(* Model of the MicroBitButton driver: an integrating debouncer with       *)
(* hysteresis that turns a raw pin level, sampled once per system tick,    *)
(* into DOWN / UP / CLICK / LONG_CLICK / HOLD events.                       *)
(*   source/drivers/MicroBitButton.cpp, inc/drivers/MicroBitButton.h        *)
(***************************************************************************)
EXTENDS Integers, Naturals, Sequences, FiniteSets, TLC

(* ---- program constants (MicroBitButton.h) ---- *)
MICROBIT_BUTTON_EVT_DOWN == 1
MICROBIT_BUTTON_EVT_UP == 2
MICROBIT_BUTTON_EVT_CLICK == 3
MICROBIT_BUTTON_EVT_LONG_CLICK == 4
MICROBIT_BUTTON_EVT_HOLD == 5

MICROBIT_BUTTON_LONG_CLICK_TIME == 1000
MICROBIT_BUTTON_HOLD_TIME == 1500

MICROBIT_BUTTON_STATE == 1
MICROBIT_BUTTON_STATE_HOLD_TRIGGERED == 2

MICROBIT_BUTTON_SIGMA_MIN == 0
MICROBIT_BUTTON_SIGMA_MAX == 12
MICROBIT_BUTTON_SIGMA_THRESH_HI == 8
MICROBIT_BUTTON_SIGMA_THRESH_LO == 2

(* enum MicroBitButtonEventConfiguration *)
MICROBIT_BUTTON_SIMPLE_EVENTS == 0
MICROBIT_BUTTON_ALL_EVENTS == 1
MicroBitButtonEventConfiguration == {MICROBIT_BUTTON_SIMPLE_EVENTS, MICROBIT_BUTTON_ALL_EVENTS}

(* ---- bounds of the exploration ---- *)
\* number of system ticks explored
MaxTicks == 45
\* tick periods (ms) of the system timer that are explored
Periods == {6, 37, 125}
\* width in bits of the clock word (unsigned long downStartTime and the
\* value of system_timer_current_time()), scaled down for the exploration
ClockBits == 13
ClockModulus == 2 ^ ClockBits
\* levels of the DigitalIn pin (active low: 0 is asserted)
PinLevels == {0, 1}
\* value of ret when the last operation returned nothing
NoReturn == 0 - 1
\* the eventConfiguration argument left out of a constructor call
NoArgument == 0 - 1
\* value of downConfig before the first press edge
NoPress == 0 - 1

VARIABLES
  sigma,               \* uint8_t sigma: integration of samples
  status,              \* MicroBitComponent::status: flag byte
  downStartTime,       \* clock value recorded at the press edge
  eventConfiguration,  \* MicroBitButtonEventConfiguration
  pin,                 \* level of the pin read by the last tick
  clock,               \* system_timer_current_time(), ms
  period,              \* tick period of the system timer, ms
  ticks,               \* number of systemTick() calls so far
  emitted,             \* events fired by the last operation, in order
  ret,                 \* value returned by the last operation
  holdCount,           \* HOLD events fired since the last DOWN
  heldPresses,         \* finished presses during which HOLD fired
  script,              \* ticks of the 20-asserted/20-deasserted scenario followed so far, or -1
  trace,               \* <<tick, event>> pairs fired while following the scenario
  requested,           \* argument of the last setEventConfiguration call, else of the constructor
  downConfig,          \* eventConfiguration in force at the last press edge
  callStage,           \* calls since the last tick: 0 none, 1 isPressed, 2 then
                       \* setEventConfiguration, 3 then isPressed again
  firstRead,           \* value of the first isPressed since the last tick
  lastEdge,            \* the last of DOWN and UP that was fired
  downTick,            \* number of the tick that took the last press edge
  run                  \* LiveSpec: ticks in a row that read the level in pin, up to 11

vars == <<sigma, status, downStartTime, eventConfiguration, pin, clock, period,
          ticks, emitted, ret, holdCount, heldPresses, script, trace,
          requested, downConfig, callStage, firstRead, lastEdge, downTick, run>>

(* ---- flag byte helpers: status & f, status |= f ---- *)
HasFlag(st, f) == (st \div f) % 2 = 1
SetFlag(st, f) == IF HasFlag(st, f) THEN st ELSE st + f

\* value of status set by the MicroBitComponent base constructor
ComponentInitStatus == 0

\* the millisecond clock read by system_timer_current_time(): the timer
\* callback advances it by one period before it runs the handler, and the
\* three reads inside one handler run see the same value
TimerAdvance(c, per) == (c + per) % ClockModulus

\* variant: the difference is taken in signed arithmetic
Elapsed_Signed(now, start) == now - start

\* system_timer_current_time() - downStartTime, in unsigned arithmetic
Elapsed(now, start) == (now - start) % ClockModulus

(* ---- the steps of systemTick ---- *)
\* variant: the upper clamp is missing
IntegrateSample_NoClamp(sg, p) ==
  IF p = 0
    THEN sg + 1
    ELSE (IF sg > MICROBIT_BUTTON_SIGMA_MIN THEN sg - 1 ELSE sg)

\* lines 92-101: the lazy follower
IntegrateSample(sg, p) ==
  IF p = 0
    THEN (IF sg < MICROBIT_BUTTON_SIGMA_MAX THEN sg + 1 ELSE sg)
    ELSE (IF sg > MICROBIT_BUTTON_SIGMA_MIN THEN sg - 1 ELSE sg)

\* variant: the press edge does not look at the state flag
PressEdge_NoStateCheck(sg, st) ==
  sg > MICROBIT_BUTTON_SIGMA_THRESH_HI

\* variant: the press threshold is inclusive
PressEdge_Inclusive(sg, st) ==
  sg >= MICROBIT_BUTTON_SIGMA_THRESH_HI /\ ~HasFlag(st, MICROBIT_BUTTON_STATE)

\* variant: the press edge is taken at the low threshold
PressEdge_LowThreshold(sg, st) ==
  sg >= MICROBIT_BUTTON_SIGMA_THRESH_LO /\ ~HasFlag(st, MICROBIT_BUTTON_STATE)

\* variant: the press edge waits for the integrator to reach its maximum
PressEdge_AtMax(sg, st) ==
  sg >= MICROBIT_BUTTON_SIGMA_MAX /\ ~HasFlag(st, MICROBIT_BUTTON_STATE)

\* line 104: off->on state change
PressEdge(sg, st) ==
  sg > MICROBIT_BUTTON_SIGMA_THRESH_HI /\ ~HasFlag(st, MICROBIT_BUTTON_STATE)

\* variant: one threshold for both edges, no hysteresis band
ReleaseEdge_NoHysteresis(sg, st) ==
  sg <= MICROBIT_BUTTON_SIGMA_THRESH_HI /\ HasFlag(st, MICROBIT_BUTTON_STATE)

\* variant: the release threshold is inclusive
ReleaseEdge_Inclusive(sg, st) ==
  sg <= MICROBIT_BUTTON_SIGMA_THRESH_LO /\ HasFlag(st, MICROBIT_BUTTON_STATE)

\* variant: the release edge does not look at the state flag
ReleaseEdge_NoStateCheck(sg, st) ==
  sg < MICROBIT_BUTTON_SIGMA_THRESH_LO

\* line 115: on->off state change
ReleaseEdge(sg, st) ==
  sg < MICROBIT_BUTTON_SIGMA_THRESH_LO /\ HasFlag(st, MICROBIT_BUTTON_STATE)

\* variant: the release edge clears the state flag only
ReleasedStatus_KeepHold(st) ==
  IF HasFlag(st, MICROBIT_BUTTON_STATE) THEN st - MICROBIT_BUTTON_STATE ELSE st

\* line 117: status after the release edge
ReleasedStatus(st) == 0

\* variant: the long click comparison is strict
ClickEvents_Strict(cfg, now, start) ==
  IF cfg = MICROBIT_BUTTON_ALL_EVENTS
    THEN (IF Elapsed(now, start) > MICROBIT_BUTTON_LONG_CLICK_TIME
            THEN <<MICROBIT_BUTTON_EVT_LONG_CLICK>>
            ELSE <<MICROBIT_BUTTON_EVT_CLICK>>)
    ELSE <<>>

\* variant: the click events are not gated by the event configuration
ClickEvents_Ungated(cfg, now, start) ==
  IF Elapsed(now, start) >= MICROBIT_BUTTON_LONG_CLICK_TIME
    THEN <<MICROBIT_BUTTON_EVT_LONG_CLICK>>
    ELSE <<MICROBIT_BUTTON_EVT_CLICK>>

\* variant: the two branches of the duration test are swapped
ClickEvents_BranchesSwapped(cfg, now, start) ==
  IF cfg = MICROBIT_BUTTON_ALL_EVENTS
    THEN (IF Elapsed(now, start) >= MICROBIT_BUTTON_LONG_CLICK_TIME
            THEN <<MICROBIT_BUTTON_EVT_CLICK>>
            ELSE <<MICROBIT_BUTTON_EVT_LONG_CLICK>>)
    ELSE <<>>

\* lines 120-127: events that follow UP
ClickEvents(cfg, now, start) ==
  IF cfg = MICROBIT_BUTTON_ALL_EVENTS
    THEN (IF Elapsed(now, start) >= MICROBIT_BUTTON_LONG_CLICK_TIME
            THEN <<MICROBIT_BUTTON_EVT_LONG_CLICK>>
            ELSE <<MICROBIT_BUTTON_EVT_CLICK>>)
    ELSE <<>>

\* variant: HOLD is gated by the event configuration like the clicks
HoldDue_AllOnly(cfg, st, now, start) ==
  /\ cfg = MICROBIT_BUTTON_ALL_EVENTS
  /\ HasFlag(st, MICROBIT_BUTTON_STATE)
  /\ ~HasFlag(st, MICROBIT_BUTTON_STATE_HOLD_TRIGGERED)
  /\ Elapsed(now, start) >= MICROBIT_BUTTON_HOLD_TIME

\* variant: the hold condition does not look at the hold-triggered flag
HoldDue_NoLatch(cfg, st, now, start) ==
  /\ HasFlag(st, MICROBIT_BUTTON_STATE)
  /\ Elapsed(now, start) >= MICROBIT_BUTTON_HOLD_TIME

\* variant: the hold condition does not look at the state flag
HoldDue_NoState(cfg, st, now, start) ==
  /\ ~HasFlag(st, MICROBIT_BUTTON_STATE_HOLD_TRIGGERED)
  /\ Elapsed(now, start) >= MICROBIT_BUTTON_HOLD_TIME

\* line 131: the hold condition; the event configuration is not consulted
HoldDue(cfg, st, now, start) ==
  /\ HasFlag(st, MICROBIT_BUTTON_STATE)
  /\ ~HasFlag(st, MICROBIT_BUTTON_STATE_HOLD_TRIGGERED)
  /\ Elapsed(now, start) >= MICROBIT_BUTTON_HOLD_TIME

\* variant: the hold check runs before the release edge check
systemTick_HoldFirst(sg, st, start, cfg, p, now) ==
  LET sg1    == IntegrateSample(sg, p)
      press  == PressEdge(sg1, st)
      st1    == IF press THEN SetFlag(st, MICROBIT_BUTTON_STATE) ELSE st
      start1 == IF press THEN now ELSE start
      ev1    == IF press THEN <<MICROBIT_BUTTON_EVT_DOWN>> ELSE <<>>
      hold   == HoldDue(cfg, st1, now, start1)
      st2    == IF hold THEN SetFlag(st1, MICROBIT_BUTTON_STATE_HOLD_TRIGGERED) ELSE st1
      ev2    == IF hold THEN ev1 \o <<MICROBIT_BUTTON_EVT_HOLD>> ELSE ev1
      rel    == ReleaseEdge(sg1, st2)
      st3    == IF rel THEN ReleasedStatus(st2) ELSE st2
      ev3    == IF rel
                  THEN ev2 \o <<MICROBIT_BUTTON_EVT_UP>> \o ClickEvents(cfg, now, start1)
                  ELSE ev2
  IN [sigma |-> sg1, status |-> st3, downStartTime |-> start1, events |-> ev3]

\* lines 84-139: the whole handler, as a function of the fields, the pin level
\* and the clock; the result holds the new fields and the events fired
systemTick(sg, st, start, cfg, p, now) ==
  LET sg1    == IntegrateSample(sg, p)
      press  == PressEdge(sg1, st)
      st1    == IF press THEN SetFlag(st, MICROBIT_BUTTON_STATE) ELSE st
      start1 == IF press THEN now ELSE start
      ev1    == IF press THEN <<MICROBIT_BUTTON_EVT_DOWN>> ELSE <<>>
      rel    == ReleaseEdge(sg1, st1)
      st2    == IF rel THEN ReleasedStatus(st1) ELSE st1
      ev2    == IF rel
                  THEN ev1 \o <<MICROBIT_BUTTON_EVT_UP>> \o ClickEvents(cfg, now, start1)
                  ELSE ev1
      hold   == HoldDue(cfg, st2, now, start1)
      st3    == IF hold THEN SetFlag(st2, MICROBIT_BUTTON_STATE_HOLD_TRIGGERED) ELSE st2
      ev3    == IF hold THEN ev2 \o <<MICROBIT_BUTTON_EVT_HOLD>> ELSE ev2
  IN [sigma |-> sg1, status |-> st3, downStartTime |-> start1, events |-> ev3]

(* ---- observers ---- *)
Count(seq, e) == Cardinality({i \in DOMAIN seq : seq[i] = e})
Fired(seq, e) == \E i \in DOMAIN seq : seq[i] = e
pressed == HasFlag(status, MICROBIT_BUTTON_STATE)
holdTriggered == HasFlag(status, MICROBIT_BUTTON_STATE_HOLD_TRIGGERED)

\* the last DOWN or UP of the events fired so far, edge being the one before seq
RECURSIVE EdgeAfter(_, _)
EdgeAfter(edge, seq) ==
  IF seq = <<>>
    THEN edge
    ELSE EdgeAfter(IF Head(seq) \in {MICROBIT_BUTTON_EVT_DOWN, MICROBIT_BUTTON_EVT_UP}
                     THEN Head(seq) ELSE edge,
                   Tail(seq))

\* the scenario: 20 asserted samples, then 20 deasserted samples
ScriptPin(k) == IF k <= 20 THEN 0 ELSE 1
TagEvents(n, seq) == [i \in DOMAIN seq |-> <<n, seq[i]>>]

\* header line 106, cpp line 52: the configuration stored by the constructor;
\* the argument defaults to MICROBIT_BUTTON_ALL_EVENTS
ConstructorArguments == MicroBitButtonEventConfiguration \cup {NoArgument}
ConstructedConfiguration(arg) ==
  IF arg = NoArgument THEN MICROBIT_BUTTON_ALL_EVENTS ELSE arg

\* variant: the constructor leaves sigma uninitialised
Init_SigmaUninitialised ==
  /\ sigma \in 0..MICROBIT_BUTTON_SIGMA_MAX
  /\ status = ComponentInitStatus
  /\ downStartTime = 0
  /\ requested \in ConstructorArguments
  /\ eventConfiguration = ConstructedConfiguration(requested)
  /\ downConfig = NoPress
  /\ callStage = 0
  /\ firstRead = NoReturn
  /\ lastEdge = NoPress
  /\ downTick = 0
  /\ run = 0
  /\ pin \in PinLevels
  /\ clock = 0
  /\ period \in Periods
  /\ ticks = 0
  /\ emitted = <<>>
  /\ ret = NoReturn
  /\ holdCount = 0
  /\ heldPresses = 0
  /\ script = IF eventConfiguration = MICROBIT_BUTTON_ALL_EVENTS THEN 0 ELSE 0 - 1
  /\ trace = <<>>

(* ---- state after construction (lines 48-56) ---- *)
Init ==
  /\ sigma = 0
  /\ status = ComponentInitStatus
  /\ downStartTime = 0
  /\ requested \in ConstructorArguments
  /\ eventConfiguration = ConstructedConfiguration(requested)
  /\ downConfig = NoPress
  /\ callStage = 0
  /\ firstRead = NoReturn
  /\ lastEdge = NoPress
  /\ downTick = 0
  /\ run = 0
  /\ pin \in PinLevels
  /\ clock = 0
  /\ period \in Periods
  /\ ticks = 0
  /\ emitted = <<>>
  /\ ret = NoReturn
  /\ holdCount = 0
  /\ heldPresses = 0
  /\ script = IF eventConfiguration = MICROBIT_BUTTON_ALL_EVENTS THEN 0 ELSE 0 - 1
  /\ trace = <<>>

\* tick periods after which the clock word returns to the values it had
LivePeriods == {ClockModulus \div 4}

\* the state after construction of a run that never ends
LiveInit ==
  /\ sigma = 0
  /\ status = ComponentInitStatus
  /\ downStartTime = 0
  /\ requested \in ConstructorArguments
  /\ eventConfiguration = ConstructedConfiguration(requested)
  /\ downConfig = NoPress
  /\ callStage = 0
  /\ firstRead = NoReturn
  /\ lastEdge = NoPress
  /\ downTick = 0
  /\ run = 0
  /\ pin \in PinLevels
  /\ clock = 0
  /\ period \in LivePeriods
  /\ ticks = 0
  /\ emitted = <<>>
  /\ ret = NoReturn
  /\ holdCount = 0
  /\ heldPresses = 0
  /\ script = IF eventConfiguration = MICROBIT_BUTTON_ALL_EVENTS THEN 0 ELSE 0 - 1
  /\ trace = <<>>

\* clock values at construction from which the clock word wraps within MaxTicks
WrapStarts == {ClockModulus - 1300}

\* the state after construction when the clock is about to wrap
WrapInit ==
  /\ sigma = 0
  /\ status = ComponentInitStatus
  /\ downStartTime = 0
  /\ requested \in ConstructorArguments
  /\ eventConfiguration = ConstructedConfiguration(requested)
  /\ downConfig = NoPress
  /\ callStage = 0
  /\ firstRead = NoReturn
  /\ lastEdge = NoPress
  /\ downTick = 0
  /\ run = 0
  /\ pin \in PinLevels
  /\ clock \in WrapStarts
  /\ period \in Periods
  /\ ticks = 0
  /\ emitted = <<>>
  /\ ret = NoReturn
  /\ holdCount = 0
  /\ heldPresses = 0
  /\ script = IF eventConfiguration = MICROBIT_BUTTON_ALL_EVENTS THEN 0 ELSE 0 - 1
  /\ trace = <<>>

(* ---- the periodic callback: the timer advances, then systemTick runs ---- *)
TickBody(p) ==
  /\ LET now == TimerAdvance(clock, period)
         r   == systemTick(sigma, status, downStartTime, eventConfiguration, p, now)
         down == Fired(r.events, MICROBIT_BUTTON_EVT_DOWN)
         up   == Fired(r.events, MICROBIT_BUTTON_EVT_UP)
         hc0  == IF down THEN 0 ELSE holdCount
         onScript == script >= 0 /\ script < 40 /\ p = ScriptPin(script + 1)
         count == IF ticks < MaxTicks THEN ticks + 1 ELSE ticks
     IN /\ clock' = now
        /\ pin' = p
        /\ sigma' = r.sigma
        /\ status' = r.status
        /\ downStartTime' = r.downStartTime
        /\ emitted' = r.events
        /\ ret' = NoReturn
        /\ holdCount' = hc0 + Count(r.events, MICROBIT_BUTTON_EVT_HOLD)
        /\ heldPresses' = IF up /\ holdCount > 0 /\ heldPresses < 2
                            THEN heldPresses + 1 ELSE heldPresses
        /\ script' = IF onScript THEN script + 1 ELSE 0 - 1
        /\ trace' = IF onScript THEN trace \o TagEvents(script + 1, r.events) ELSE <<>>
        /\ downConfig' = IF down THEN eventConfiguration ELSE downConfig
        /\ callStage' = 0
        /\ firstRead' = NoReturn
        /\ lastEdge' = EdgeAfter(lastEdge, r.events)
        /\ downTick' = IF down THEN count ELSE downTick
  /\ UNCHANGED <<eventConfiguration, period, requested>>

\* a tick of a run that is explored for MaxTicks ticks
Tick(p) ==
  /\ ticks < MaxTicks
  /\ TickBody(p)
  /\ ticks' = ticks + 1
  /\ UNCHANGED run

\* a tick of a run that never ends: the ticks are not counted, the length
\* of the run of equal samples is (up to 11)
LiveTick(p) ==
  /\ TickBody(p)
  /\ run' = IF run > 0 /\ p = pin
              THEN (IF run < 11 THEN run + 1 ELSE run)
              ELSE 1
  /\ UNCHANGED ticks

\* variant: a call made while the button is pressed is dropped
setEventConfiguration_WhenReleased(config) ==
  /\ eventConfiguration' = IF HasFlag(status, MICROBIT_BUTTON_STATE)
                             THEN eventConfiguration ELSE config
  /\ requested' = config
  /\ emitted' = <<>>
  /\ ret' = NoReturn
  /\ script' = IF config = MICROBIT_BUTTON_ALL_EVENTS THEN script ELSE 0 - 1
  /\ trace' = IF config = MICROBIT_BUTTON_ALL_EVENTS THEN trace ELSE <<>>
  /\ callStage' = IF callStage = 1 THEN 2 ELSE callStage
  /\ UNCHANGED <<sigma, status, downStartTime, pin, clock, period, ticks,
                 holdCount, heldPresses, downConfig, firstRead, lastEdge, downTick, run>>

(* ---- lines 74-77 ---- *)
setEventConfiguration(config) ==
  /\ eventConfiguration' = config
  /\ requested' = config
  /\ emitted' = <<>>
  /\ ret' = NoReturn
  /\ script' = IF config = MICROBIT_BUTTON_ALL_EVENTS THEN script ELSE 0 - 1
  /\ trace' = IF config = MICROBIT_BUTTON_ALL_EVENTS THEN trace ELSE <<>>
  /\ callStage' = IF callStage = 1 THEN 2 ELSE callStage
  /\ UNCHANGED <<sigma, status, downStartTime, pin, clock, period, ticks,
                 holdCount, heldPresses, downConfig, firstRead, lastEdge, downTick, run>>

\* variant: the read consumes the press (clears the state flag)
isPressed_Consuming ==
  /\ ret' = IF HasFlag(status, MICROBIT_BUTTON_STATE) THEN 1 ELSE 0
  /\ status' = IF HasFlag(status, MICROBIT_BUTTON_STATE)
                 THEN status - MICROBIT_BUTTON_STATE ELSE status
  /\ emitted' = <<>>
  /\ callStage' = IF callStage = 0 THEN 1 ELSE IF callStage = 2 THEN 3 ELSE callStage
  /\ firstRead' = IF callStage = 0 THEN ret' ELSE firstRead
  /\ UNCHANGED <<sigma, downStartTime, eventConfiguration, pin, clock,
                 period, ticks, holdCount, heldPresses, script, trace,
                 requested, downConfig, lastEdge, downTick, run>>

(* ---- lines 151-154 ---- *)
isPressed ==
  /\ ret' = IF HasFlag(status, MICROBIT_BUTTON_STATE) THEN 1 ELSE 0
  /\ emitted' = <<>>
  /\ callStage' = IF callStage = 0 THEN 1 ELSE IF callStage = 2 THEN 3 ELSE callStage
  /\ firstRead' = IF callStage = 0 THEN ret' ELSE firstRead
  /\ UNCHANGED <<sigma, status, downStartTime, eventConfiguration, pin, clock,
                 period, ticks, holdCount, heldPresses, script, trace,
                 requested, downConfig, lastEdge, downTick, run>>

Next ==
  \/ \E p \in PinLevels : Tick(p)
  \/ \E config \in MicroBitButtonEventConfiguration : setEventConfiguration(config)
  \/ isPressed

Spec == Init /\ [][Next]_vars

\* the same program, constructed shortly before the clock word wraps
WrapSpec == WrapInit /\ [][Next]_vars

\* the same program run for ever: the system timer keeps calling systemTick
LiveNext ==
  \/ \E p \in PinLevels : LiveTick(p)
  \/ \E config \in MicroBitButtonEventConfiguration : setEventConfiguration(config)
  \/ isPressed

LiveSpec ==
  /\ LiveInit
  /\ [][LiveNext]_vars
  /\ WF_vars(\E p \in PinLevels : LiveTick(p))

TickStep == ticks' = ticks + 1

(***************************************************************************)
(* Properties                                                              *)
(***************************************************************************)
DOWN == MICROBIT_BUTTON_EVT_DOWN
UP == MICROBIT_BUTTON_EVT_UP
CLICK == MICROBIT_BUTTON_EVT_CLICK
LONG_CLICK == MICROBIT_BUTTON_EVT_LONG_CLICK
HOLD == MICROBIT_BUTTON_EVT_HOLD

\* C1: the integrator stays within [0, 12]; a tick with an asserted sample
\* (pin low) adds 1 unless it is at 12, a tick with a deasserted sample
\* subtracts 1 unless it is at 0.
C1_SigmaClamped ==
  /\ [](sigma \in 0..12)
  /\ [][TickStep =>
          sigma' = IF pin' = 0
                     THEN (IF sigma = 12 THEN 12 ELSE sigma + 1)
                     ELSE (IF sigma = 0 THEN 0 ELSE sigma - 1)]_vars

\* thirteen asserted samples in a row: the last one met the integrator at 12
C1_Witness == script = 13 /\ sigma = 12 /\ pin = 0

\* C2: hysteresis. pressed rises only on a tick that takes the integrator
\* from <= 8 to > 8, falls only on a tick that takes it from >= 2 to < 2,
\* and a tick that ends inside [2, 8] leaves pressed alone.
C2_Hysteresis ==
  [][TickStep =>
       /\ (~pressed /\ pressed' => sigma <= 8 /\ sigma' > 8)
       /\ (pressed /\ ~pressed' => sigma >= 2 /\ sigma' < 2)
       /\ (sigma' \in 2..8 => (pressed' <=> pressed))]_vars

\* a release edge has happened (hence a press edge before it)
C2_Witness == Fired(emitted, UP) /\ ~pressed /\ sigma = 1

\* C3: in both modes a tick fires exactly one DOWN iff pressed rises in it
\* and exactly one UP iff pressed falls in it, and none otherwise.
C3_DownUpPerEdge ==
  [][TickStep =>
       /\ Count(emitted', DOWN) = (IF ~pressed /\ pressed' THEN 1 ELSE 0)
       /\ Count(emitted', UP) = (IF pressed /\ ~pressed' THEN 1 ELSE 0)]_vars

\* an UP fired under the simple configuration
C3_Witness ==
  /\ eventConfiguration = MICROBIT_BUTTON_SIMPLE_EVENTS
  /\ Fired(emitted, UP)
  /\ ~pressed

\* C4: a release-edge tick under ALL_EVENTS fires UP followed by exactly one
\* of LONG_CLICK (elapsed >= 1000) or CLICK (otherwise); a tick without a
\* release edge fires neither CLICK nor LONG_CLICK.
C4_ClickClassification ==
  [][TickStep =>
       IF pressed /\ ~pressed'
         THEN (eventConfiguration = MICROBIT_BUTTON_ALL_EVENTS =>
                 emitted' = <<UP, IF clock' - downStartTime' >= 1000
                                    THEN LONG_CLICK ELSE CLICK>>)
         ELSE ~Fired(emitted', CLICK) /\ ~Fired(emitted', LONG_CLICK)]_vars

\* a press of exactly 1000 ms was classified as a long click
C4_Witness ==
  /\ emitted = <<UP, LONG_CLICK>>
  /\ clock - downStartTime = 1000

\* a press of exactly 999 ms was classified as a click
C4_Witness999 ==
  /\ emitted = <<UP, CLICK>>
  /\ clock - downStartTime = 999

\* C5 (as stated): under SIMPLE_EVENTS every event fired is DOWN or UP.
C5_OnlyDownUpInSimple ==
  eventConfiguration = MICROBIT_BUTTON_SIMPLE_EVENTS =>
    \A i \in DOMAIN emitted : emitted[i] \in {DOWN, UP}

\* C5 (amended): under SIMPLE_EVENTS every event fired is DOWN, UP or HOLD;
\* CLICK and LONG_CLICK are never fired.
C5_NoClicksInSimple ==
  eventConfiguration = MICROBIT_BUTTON_SIMPLE_EVENTS =>
    \A i \in DOMAIN emitted : emitted[i] \in {DOWN, UP, HOLD}

\* a release edge under SIMPLE_EVENTS fired UP alone
C5_Witness ==
  /\ eventConfiguration = MICROBIT_BUTTON_SIMPLE_EVENTS
  /\ emitted = <<UP>>
  /\ clock - downStartTime >= 1000

\* C6: in either mode, a tick that ends pressed, started with holdTriggered
\* clear and has elapsed >= 1500 sets holdTriggered and fires HOLD once.
C6_HoldIgnoresMode ==
  [][TickStep /\ pressed' /\ ~holdTriggered /\ clock' - downStartTime' >= 1500 =>
       holdTriggered' /\ Count(emitted', HOLD) = 1]_vars

\* HOLD fired under the simple configuration
C6_Witness ==
  /\ eventConfiguration = MICROBIT_BUTTON_SIMPLE_EVENTS
  /\ emitted = <<HOLD>>
  /\ holdTriggered

\* C7: at most one HOLD is fired between a DOWN and the next UP.
C7_AtMostOneHold == holdCount <= 1

\* still pressed 500 ms after the hold threshold, with one HOLD fired
C7_Witness ==
  /\ pressed
  /\ holdCount = 1
  /\ clock - downStartTime >= 2000

\* C8: HOLD is fired only on a tick that ends pressed. A release edge at
\* elapsed >= 1500 whose press has not fired HOLD fires UP (and LONG_CLICK
\* under ALL_EVENTS) and no HOLD, and no HOLD is counted for that press later.
C8_NoHoldOnRelease ==
  /\ [](Fired(emitted, HOLD) => pressed)
  /\ [][TickStep /\ pressed /\ ~pressed' /\ ~holdTriggered
          /\ clock' - downStartTime >= 1500 =>
            /\ emitted' = <<UP>> \o (IF eventConfiguration = MICROBIT_BUTTON_ALL_EVENTS
                                       THEN <<LONG_CLICK>> ELSE <<>>)
            /\ holdCount' = 0]_vars
  /\ [][~pressed /\ ~pressed' => holdCount' = holdCount]_vars

\* released at elapsed >= 1500 before HOLD fired
C8_Witness ==
  /\ emitted = <<UP, LONG_CLICK>>
  /\ holdCount = 0
  /\ clock - downStartTime >= 1500

\* C9: the release edge clears holdTriggered with pressed, and every press
\* that is still pressed at elapsed >= 1500 has fired HOLD exactly once.
C9_HoldRearmed ==
  /\ [][TickStep /\ pressed /\ ~pressed' => ~holdTriggered']_vars
  /\ [](~pressed => ~holdTriggered)
  /\ [](pressed /\ clock - downStartTime >= 1500 => holdTriggered /\ holdCount = 1)

\* HOLD fired again in a press that follows a press that was held
C9_Witness ==
  /\ heldPresses >= 1
  /\ pressed
  /\ emitted = <<HOLD>>
  /\ holdCount = 1

\* the integrator after k ticks of the scenario
ScriptSigma(k) == IF k <= 12 THEN k ELSE IF k <= 20 THEN 12 ELSE IF k <= 32 THEN 32 - k ELSE 0
\* the events the scenario is expected to have fired after k ticks
ScriptTrace(k) ==
  (IF k >= 9 THEN <<(<<9, DOWN>>)>> ELSE <<>>)
    \o (IF k >= 31 THEN <<(<<31, UP>>), (<<31, CLICK>>)>> ELSE <<>>)

\* C10: from construction under ALL_EVENTS with a 6 ms period, 20 asserted
\* then 20 deasserted ticks fire DOWN on tick 9 (integrator first > 8),
\* UP then CLICK on tick 31 (integrator first < 2), and nothing else.
C10_Scenario ==
  period = 6 /\ script >= 0 =>
    /\ ticks = script
    /\ sigma = ScriptSigma(script)
    /\ trace = ScriptTrace(script)

\* the scenario ran to its end
C10_Witness ==
  /\ period = 6
  /\ script = 40
  /\ trace = <<(<<9, DOWN>>), (<<31, UP>>), (<<31, CLICK>>)>>

\* C11: setEventConfiguration takes effect from the next tick: the stored
\* configuration is always the one last asked for, and a release-edge tick
\* fires CLICK / LONG_CLICK after UP exactly when that one is ALL_EVENTS,
\* whatever configuration was in force at the press edge.
C11_ConfigurationAtRelease ==
  /\ [](eventConfiguration = ConstructedConfiguration(requested))
  /\ [][TickStep /\ pressed /\ ~pressed' =>
          emitted' =
            IF ConstructedConfiguration(requested) = MICROBIT_BUTTON_ALL_EVENTS
              THEN <<UP, IF clock' - downStartTime' >= 1000 THEN LONG_CLICK ELSE CLICK>>
              ELSE <<UP>>]_vars

\* pressed under SIMPLE_EVENTS, released under ALL_EVENTS: UP and CLICK
C11_Witness ==
  /\ downConfig = MICROBIT_BUTTON_SIMPLE_EVENTS
  /\ requested = MICROBIT_BUTTON_ALL_EVENTS
  /\ emitted = <<UP, CLICK>>

\* pressed under ALL_EVENTS, released under SIMPLE_EVENTS: UP alone
C11_WitnessSimple ==
  /\ downConfig = MICROBIT_BUTTON_ALL_EVENTS
  /\ requested = MICROBIT_BUTTON_SIMPLE_EVENTS
  /\ emitted = <<UP>>

\* C12: a step that is not a tick fires no event and leaves sigma, status
\* and downStartTime alone; isPressed also leaves eventConfiguration alone
\* and returns what the first isPressed since the last tick returned, also
\* across setEventConfiguration calls.
C12_AccessorsFrame ==
  [][~TickStep =>
       /\ UNCHANGED <<sigma, status, downStartTime>>
       /\ emitted' = <<>>
       /\ (ret' # NoReturn =>
             /\ UNCHANGED eventConfiguration
             /\ ret' = (IF pressed THEN 1 ELSE 0)
             /\ (firstRead # NoReturn => ret' = firstRead))]_vars

\* isPressed, setEventConfiguration, isPressed with no tick between: 1 twice
C12_Witness ==
  /\ callStage = 3
  /\ firstRead = 1
  /\ ret = 1

\* C13: before the first tick sigma = 0, pressed and holdTriggered are
\* false, downStartTime = 0, isPressed returns 0 and no event has been fired;
\* the configuration is the constructor's argument, ALL_EVENTS when it was
\* left out, until setEventConfiguration replaces it.
C13_AfterConstruction ==
  ticks = 0 =>
    /\ sigma = 0
    /\ ~pressed
    /\ ~holdTriggered
    /\ downStartTime = 0
    /\ ret \in {NoReturn, 0}
    /\ emitted = <<>>
    /\ (requested = NoArgument => eventConfiguration = MICROBIT_BUTTON_ALL_EVENTS)
    /\ (requested # NoArgument => eventConfiguration = requested)

\* built without a configuration argument, then asked: not pressed, ALL_EVENTS
C13_Witness ==
  /\ ticks = 0
  /\ requested = NoArgument
  /\ eventConfiguration = MICROBIT_BUTTON_ALL_EVENTS
  /\ ret = 0

\* C14: one tick fires at most one of DOWN and UP, and a tick that fires
\* HOLD fires neither UP nor DOWN.
C14_OneEdgePerTick ==
  /\ Count(emitted, DOWN) + Count(emitted, UP) <= 1
  /\ (Fired(emitted, HOLD) => ~Fired(emitted, UP) /\ ~Fired(emitted, DOWN))

\* a release edge at elapsed >= 1500 of a press that had not fired HOLD
C14_Witness ==
  /\ eventConfiguration = MICROBIT_BUTTON_SIMPLE_EVENTS
  /\ emitted = <<UP>>
  /\ holdCount = 0
  /\ clock - downStartTime >= 1500

\* C15: a tick whose sample differs from the sample of the tick before it,
\* and the first tick, neither changes pressed nor fires DOWN or UP.
C15_TransientIgnored ==
  [][TickStep /\ (pin' # pin \/ ticks = 0) =>
       /\ (pressed' <=> pressed)
       /\ ~Fired(emitted', DOWN)
       /\ ~Fired(emitted', UP)]_vars

\* the first deasserted sample after twenty asserted ones: still pressed
C15_Witness ==
  /\ script = 21
  /\ pin = 1
  /\ sigma = 11
  /\ pressed

\* C16: initially and after every operation, sigma > 8 implies pressed,
\* sigma < 2 implies not pressed and holdTriggered implies pressed; a tick
\* that fired DOWN ended with sigma = 9, one that fired UP with sigma = 1.
C16_FlagMatchesIntegrator ==
  /\ (sigma > 8 => pressed)
  /\ (sigma < 2 => ~pressed)
  /\ (holdTriggered => pressed)
  /\ (Fired(emitted, DOWN) => sigma = 9)
  /\ (Fired(emitted, UP) => sigma = 1)

\* the end of a press-edge tick
C16_Witness ==
  /\ emitted = <<DOWN>>
  /\ sigma = 9
  /\ pressed
  /\ ~holdTriggered

\* the events of one tick are in order: edge is the last DOWN or UP fired
\* before them, before the event fired just before them in the same tick
RECURSIVE InOrder(_, _, _)
InOrder(edge, before, seq) ==
  IF seq = <<>>
    THEN TRUE
    ELSE LET e == Head(seq)
         IN /\ CASE e = DOWN -> edge # DOWN
                  [] e = UP -> edge = DOWN
                  [] e \in {CLICK, LONG_CLICK} -> before = UP
                  [] e = HOLD -> edge = DOWN
                  [] OTHER -> FALSE
            /\ InOrder(IF e \in {DOWN, UP} THEN e ELSE edge, e, Tail(seq))

\* C17: DOWN and UP alternate, starting with DOWN; CLICK and LONG_CLICK come
\* directly after an UP of the same tick; HOLD comes after a DOWN and before
\* the next UP.
C17_EventOrder ==
  [][TickStep => InOrder(lastEdge, NoPress, emitted')]_vars

\* a whole life cycle: DOWN, HOLD, then UP and LONG_CLICK
C17_Witness ==
  /\ lastEdge = UP
  /\ holdCount = 1
  /\ emitted = <<UP, LONG_CLICK>>

\* C18: after 9 asserted samples in a row the button is pressed, after 11
\* deasserted samples in a row it is not; so when the ticks go on and the
\* input stays asserted (deasserted) for ever, pressed becomes and stays
\* true (false).
C18_BoundedResponse ==
  /\ [](pin = 0 /\ run >= 9 => pressed)
  /\ [](pin = 1 /\ run >= 11 => ~pressed)
  /\ (<>[](pin = 0) => <>[]pressed)
  /\ (<>[](pin = 1) => <>[]~pressed)

\* the ninth asserted sample in a row, from an empty integrator, fired DOWN
C18_Witness ==
  /\ pin = 0
  /\ run = 9
  /\ sigma = 9
  /\ emitted = <<DOWN>>

\* the eleventh deasserted sample in a row, from a full integrator, fired UP
C18_WitnessRelease ==
  /\ pin = 1
  /\ run = 11
  /\ sigma = 1
  /\ Fired(emitted, UP)

\* C19: while the clock does not wrap, the release edge of a press that
\* fired HOLD fires LONG_CLICK under ALL_EVENTS, never CLICK: no press has
\* both HOLD and CLICK.
C19_HeldPressIsLongClick ==
  /\ [](Fired(emitted, CLICK) => holdCount = 0)
  /\ [][TickStep /\ pressed /\ ~pressed' /\ holdCount >= 1
          /\ eventConfiguration = MICROBIT_BUTTON_ALL_EVENTS =>
            emitted' = <<UP, LONG_CLICK>>]_vars

\* a press that fired HOLD was released under ALL_EVENTS
C19_Witness ==
  /\ emitted = <<UP, LONG_CLICK>>
  /\ eventConfiguration = MICROBIT_BUTTON_ALL_EVENTS
  /\ holdCount = 1
  /\ heldPresses = 1

\* time that really passed since the last press edge
TrueElapsed == (ticks - downTick) * period

C20_WitnessClick ==
  /\ clock < downStartTime
  /\ emitted = <<UP, CLICK>>
  /\ TrueElapsed < 1000

\* the clock wrapped between the press edge and the tick that fired HOLD
C20_WitnessHold ==
  /\ clock < downStartTime
  /\ emitted = <<HOLD>>

====
